---- MODULE Spec2Model ----
(***************************************************************************)
(* LayerModelHelper (caffe2/python/layer_model_helper.py) as a state       *)
(* machine.  The state is the helper's bookkeeping: the global constant    *)
(* pool and the init nets built from it, the layer-name set, the loss and  *)
(* output schemas, the metrics schema and the parameter-shape map.  Every  *)
(* public method is one action; last_call records the method that ran in   *)
(* the step, its arguments and how it ended (return value or exception).   *)
(*                                                                         *)
(* Python values are encoded as follows.  None is the string "None".  A    *)
(* dict is a function whose DOMAIN is its key set.  Numbers inside numpy   *)
(* arrays are counted in halves (1.0 is 2, 0.5 is 1) so that the cast to   *)
(* an integer dtype is a real truncation.  A schema.Struct restricted to   *)
(* top-level fields is a function from field names to field values.        *)
(***************************************************************************)
EXTENDS Integers, Sequences, FiniteSets, TLC

VARIABLES
    global_constants,               \* self.global_constants: name -> blob
    global_constant_initializers,   \* self.global_constant_initializers: blob -> op
    net_blobs,                      \* blob names self.net has handed out (NextBlob)
    first_ret,                      \* history: name -> blob returned by the call that registered it
    param_init_net,                 \* ops of self.param_init_net
    init_nets,                      \* ops of every net returned by create_init_net
    _layer_names,                   \* self._layer_names
    returned_names,                 \* history: names returned by next_layer_name, in order
    _loss,                          \* self._loss
    loss_log,                       \* history: <<field, loss>> of every successful add_loss
    _output_schema,                 \* self._output_schema
    sets_since_clear,               \* history: values the output_schema setter stored since the last clear
    _metrics_schema,                \* self._metrics_schema
    metric_log,                     \* history: names successfully added by add_metric_field
    _param_to_shape,                \* self._param_to_shape
    first_shape,                    \* history: shape of the first successful create_param per name
    _seed,                          \* self._seed
    _sequence_seed,                 \* self._sequence_seed
    seed_stored,                    \* history: store_seed has been called
    net_rand_seed,                  \* per net: the arguments of its last set_rand_seed call
    _layers,                        \* self._layers
    params,                         \* self.params
    param_to_optim,                 \* self.param_to_optim: str(parameter) -> optimizer
    param_to_reg,                   \* self.param_to_reg: parameter -> regularizer
    _default_optimizer,             \* self._default_optimizer
    optim_at_add,                   \* history: parameter -> its own optimizer and the default
                                    \*   optimizer at the add_layer call that last added it
    pass_log,                       \* history: the regularizer passes run so far, each with
                                    \*   param_to_reg at the time and the parameters invoked
    wrapper,                        \* the wrapper __getattr__ returned last, held by the caller
    trace,                          \* history: the calls the last __getattr__ or wrapper call
                                    \*   made into the registries, the new layer and the model
    last_call                       \* the call made in the last step and its outcome

vars == <<global_constants, global_constant_initializers, net_blobs, first_ret, param_init_net,
          init_nets, _layer_names, returned_names, _loss, loss_log, _output_schema,
          sets_since_clear, _metrics_schema, metric_log, _param_to_shape, first_shape,
          _seed, _sequence_seed, seed_stored, net_rand_seed,
          _layers, params, param_to_optim, param_to_reg, _default_optimizer, optim_at_add,
          pass_log, wrapper, trace, last_call>>

constVars == <<global_constants, global_constant_initializers, net_blobs, first_ret,
               param_init_net, init_nets>>
nameVars == <<_layer_names, returned_names>>
lossVars == <<_loss, loss_log>>
outVars == <<_output_schema, sets_since_clear>>
metricVars == <<_metrics_schema, metric_log>>
paramVars == <<_param_to_shape, first_shape>>
seedVars == <<_seed, _sequence_seed, seed_stored, net_rand_seed>>
layerVars == <<_layers, params, param_to_optim, param_to_reg, _default_optimizer, optim_at_add>>
regVars == <<pass_log>>
dispatchVars == <<wrapper, trace>>

None == "None"

(* dict helpers *)
EmptyDict == [k \in {} |-> None]
DictPut(d, k, v) == [x \in DOMAIN d \cup {k} |-> IF x = k THEN v ELSE d[x]]
DictValues(d) == {d[k] : k \in DOMAIN d}

----------------------------------------------------------------------------
(* Bounds of the exploration. *)
MaxInitNets == 2
MaxNetBlobs == 5
MaxLayerNames == 4
MaxLosses == 3
MaxSets == 3
MaxLayers == 2
MaxPasses == 2

----------------------------------------------------------------------------
(* Global constants *)

DebugInfos == {"", "trace"}

(* The value arguments (array, dtype, initializer) the calls are tried with. *)
Scalar(kind, v) == [kind |-> kind, shape |-> <<>>, vals |-> <<v>>]
NoArray == [kind |-> None, shape |-> <<>>, vals |-> <<>>]     \* array=None
ValueArgs ==
    { [array |-> Scalar("float", 2), dtype |-> None,    initializer |-> None],
      [array |-> Scalar("int", 2),   dtype |-> None,    initializer |-> None],
      [array |-> Scalar("float", 3), dtype |-> "int64", initializer |-> None],
      [array |-> NoArray,            dtype |-> None,    initializer |-> "ConstantFill"],
      [array |-> Scalar("int", 2),   dtype |-> None,    initializer |-> "ConstantFill"],
      [array |-> NoArray,            dtype |-> None,    initializer |-> None] }

IsIntDtype(dt) == dt \in {"int32", "int64"}

(* np.array(array) / np.array(array, dtype=dtype): the dtype of the result *)
ArrayDtype(args) ==
    IF args.dtype = None
    THEN (IF args.array.kind = "float" THEN "float64"
          ELSE IF args.array.kind = "int" THEN "int64"
          ELSE args.array.kind)
    ELSE args.dtype

(* ... and its elements: a cast to an integer dtype truncates (values in halves) *)
CastValue(dt, v) == IF IsIntDtype(dt) THEN (v \div 2) * 2 ELSE v
ArrayValues(args) ==
    [i \in 1..Len(args.array.vals) |-> CastValue(ArrayDtype(args), args.array.vals[i])]

(* the op_name chain *)
FillOpName(dt) ==
    IF dt = "int32" THEN "GivenTensorIntFill"
    ELSE IF dt = "int64" THEN "GivenTensorInt64Fill"
    ELSE IF dt = "str" THEN "GivenTensorStringFill"
    ELSE IF dt = "bool" THEN "GivenTensorBoolFill"
    ELSE "GivenTensorFill"

(* the two assertions of _get_global_constant_initializer_op *)
InitializerArgsOk(args) ==
    IF args.array # NoArray THEN args.initializer = None ELSE args.initializer # None

(* the operator it returns when neither assertion fails; dbg is the debug_info
   CreateOperator attaches to the op it builds *)
_get_global_constant_initializer_op(blob_name, args, dbg) ==
    IF args.array # NoArray
    THEN [type |-> FillOpName(ArrayDtype(args)), output |-> blob_name,
          shape |-> args.array.shape, values |-> ArrayValues(args),
          debug_info |-> dbg]
    ELSE [type |-> args.initializer, output |-> blob_name,
          shape |-> <<>>, values |-> <<>>, debug_info |-> dbg]

(* mutant of op_equal: debug_info is compared too *)
op_equal_with_debug_info(operator1, operator2) == operator1 = operator2

(* op_equal of maybe_add_global_constant: compares with debug_info blanked *)
op_equal(operator1, operator2) ==
    [operator1 EXCEPT !.debug_info = ""] = [operator2 EXCEPT !.debug_info = ""]

(* core.Net.NextBlob(prefix): the first of prefix, prefix_auto_0, prefix_auto_1,
   ... that the net has not handed out yet *)
RECURSIVE NextBlobFrom(_, _, _)
NextBlobFrom(blobs, prefix, index) ==
    LET candidate == prefix \o "_auto_" \o ToString(index) IN
    IF candidate \in blobs THEN NextBlobFrom(blobs, prefix, index + 1) ELSE candidate
NextBlob(blobs, prefix) ==
    IF prefix \in blobs THEN NextBlobFrom(blobs, prefix, 0) ELSE prefix

(* the record of a call: args is always a record and ret always a string *)
NoArgs == [name |-> None]
Call(op, args, outcome, ret) ==
    [op |-> op, args |-> args, outcome |-> outcome, ret |-> ret]

(* mutant of add_global_constant: the "already added" assertion is missing *)
add_global_constant_unchecked(op, name, args, dbg) ==
    LET a == [name |-> name, value |-> args, dbg |-> dbg]
        blob_name == NextBlob(net_blobs, name) IN
    /\ net_blobs' = net_blobs \cup {blob_name}
    /\ global_constants' = DictPut(global_constants, name, blob_name)
    /\ IF ~InitializerArgsOk(args)
       THEN /\ UNCHANGED <<global_constant_initializers, first_ret>>
            /\ last_call' = Call(op, a, "AssertionError: array/initializer", None)
       ELSE /\ global_constant_initializers' =
                   DictPut(global_constant_initializers, blob_name,
                           _get_global_constant_initializer_op(blob_name, args, dbg))
            /\ first_ret' = DictPut(first_ret, name, blob_name)
            /\ last_call' = Call(op, a, "ok", blob_name)

(* add_global_constant(name, array, dtype, initializer), called as `op` *)
add_global_constant(op, name, args, dbg) ==
    LET a == [name |-> name, value |-> args, dbg |-> dbg] IN
    IF name \in DOMAIN global_constants
    THEN /\ UNCHANGED <<global_constants, global_constant_initializers, net_blobs, first_ret>>
         /\ last_call' = Call(op, a, "AssertionError: already added in global_constants", None)
    ELSE LET blob_name == NextBlob(net_blobs, name) IN
         /\ net_blobs' = net_blobs \cup {blob_name}
         /\ global_constants' = DictPut(global_constants, name, blob_name)
         /\ IF ~InitializerArgsOk(args)
            THEN /\ UNCHANGED <<global_constant_initializers, first_ret>>
                 /\ last_call' = Call(op, a, "AssertionError: array/initializer", None)
            ELSE IF blob_name \in DOMAIN global_constant_initializers
            THEN /\ UNCHANGED <<global_constant_initializers, first_ret>>
                 /\ last_call' = Call(op, a, "AssertionError: there is already a initializer op", None)
            ELSE /\ global_constant_initializers' =
                        DictPut(global_constant_initializers, blob_name,
                                _get_global_constant_initializer_op(blob_name, args, dbg))
                 /\ first_ret' = DictPut(first_ret, name, blob_name)
                 /\ last_call' = Call(op, a, "ok", blob_name)

(* mutant of maybe_add_global_constant: a differing value replaces the
   registered initializer instead of failing *)
maybe_add_global_constant_overwrite(name, args, dbg) ==
    LET a == [name |-> name, value |-> args, dbg |-> dbg] IN
    IF name \in DOMAIN global_constants
    THEN LET blob_name == global_constants[name] IN
         /\ UNCHANGED <<global_constants, net_blobs, first_ret>>
         /\ IF ~InitializerArgsOk(args)
            THEN /\ UNCHANGED global_constant_initializers
                 /\ last_call' = Call("maybe_add_global_constant", a,
                                      "AssertionError: array/initializer", None)
            ELSE /\ global_constant_initializers' =
                        DictPut(global_constant_initializers, blob_name,
                                _get_global_constant_initializer_op(blob_name, args, dbg))
                 /\ last_call' = Call("maybe_add_global_constant", a, "ok", blob_name)
    ELSE add_global_constant("maybe_add_global_constant", name, args, dbg)

(* maybe_add_global_constant(name, *args, **kwargs) *)
maybe_add_global_constant(name, args, dbg) ==
    LET a == [name |-> name, value |-> args, dbg |-> dbg] IN
    IF name \in DOMAIN global_constants
    THEN LET blob_name == global_constants[name] IN
         /\ UNCHANGED <<global_constants, global_constant_initializers, net_blobs, first_ret>>
         /\ IF ~InitializerArgsOk(args)
            THEN last_call' = Call("maybe_add_global_constant", a,
                                   "AssertionError: array/initializer", None)
            ELSE IF blob_name \notin DOMAIN global_constant_initializers
            THEN last_call' = Call("maybe_add_global_constant", a, "KeyError", None)
            ELSE IF ~op_equal(_get_global_constant_initializer_op(blob_name, args, dbg),
                              global_constant_initializers[blob_name])
            THEN last_call' = Call("maybe_add_global_constant", a,
                                   "AssertionError: conflict initializers for global constant", None)
            ELSE last_call' = Call("maybe_add_global_constant", a, "ok", blob_name)
    ELSE add_global_constant("maybe_add_global_constant", name, args, dbg)

(* _add_global_constants(init_net) on a fresh net: the ops the net gets *)
_add_global_constants(initializers) == DictValues(initializers)

(* _init_global_constants: the maps after registering ONE, ZERO, ZERO_RANGE *)
InitConstArgs ==
    << <<"ONE", [array |-> Scalar("float", 2), dtype |-> None, initializer |-> None]>>,
       <<"ZERO", [array |-> Scalar("float", 0), dtype |-> None, initializer |-> None]>>,
       <<"ZERO_RANGE", [array |-> [kind |-> "int", shape |-> <<2>>, vals |-> <<0, 0>>],
                        dtype |-> "int32", initializer |-> None]>> >>
_init_global_constants(dbg) ==
    [constants |-> [n \in {InitConstArgs[i][1] : i \in 1..3} |-> n],
     initializers |->
        [b \in {InitConstArgs[i][1] : i \in 1..3} |->
            LET i == CHOOSE j \in 1..3 : InitConstArgs[j][1] = b IN
            _get_global_constant_initializer_op(b, InitConstArgs[i][2], dbg)]]

ConstNames == {"ONE", "K"}
BlobPrefixes == {"K"}

AddGlobalConstant ==
    \E name \in ConstNames, args \in ValueArgs, dbg \in DebugInfos :
        /\ add_global_constant("add_global_constant", name, args, dbg)
        /\ UNCHANGED <<param_init_net, init_nets>>
        /\ UNCHANGED <<nameVars, lossVars, outVars, metricVars, paramVars, seedVars, layerVars, regVars, dispatchVars>>

MaybeAddGlobalConstant ==
    \E name \in ConstNames, args \in ValueArgs, dbg \in DebugInfos :
        /\ maybe_add_global_constant(name, args, dbg)
        /\ UNCHANGED <<param_init_net, init_nets>>
        /\ UNCHANGED <<nameVars, lossVars, outVars, metricVars, paramVars, seedVars, layerVars, regVars, dispatchVars>>

(* create_init_net(name) *)
CreateInitNet ==
    /\ Len(init_nets) < MaxInitNets
    /\ init_nets' = Append(init_nets, _add_global_constants(global_constant_initializers))
    /\ last_call' = Call("create_init_net", NoArgs, "ok", ToString(Len(init_nets) + 1))
    /\ UNCHANGED <<global_constants, global_constant_initializers, net_blobs, first_ret,
                   param_init_net>>
    /\ UNCHANGED <<nameVars, lossVars, outVars, metricVars, paramVars, seedVars, layerVars, regVars, dispatchVars>>

(* a layer asking self.net for an output blob: self.net.NextBlob(prefix) *)
NetNextBlob ==
    \E prefix \in BlobPrefixes :
        /\ Cardinality(net_blobs) < MaxNetBlobs
        /\ net_blobs' = net_blobs \cup {NextBlob(net_blobs, prefix)}
        /\ last_call' = Call("net.NextBlob", [prefix |-> prefix], "ok", NextBlob(net_blobs, prefix))
        /\ UNCHANGED <<global_constants, global_constant_initializers, first_ret,
                       param_init_net, init_nets>>
        /\ UNCHANGED <<nameVars, lossVars, outVars, metricVars, paramVars, seedVars, layerVars, regVars, dispatchVars>>

----------------------------------------------------------------------------
(* Layer names *)

NameScopes == {"", "s/"}
LayerPrefixes == {"fc", "fc_auto_0", "fc_auto_1"}

(* core.ScopedName(prefix) under the current name scope *)
ScopedName(scope, prefix) == scope \o prefix

(* mutant of next_layer_name: `if` instead of `while`, a single retry *)
next_layer_name_single_retry(names, base_name) ==
    IF base_name \in names THEN base_name \o "_auto_" \o ToString(0) ELSE base_name

(* the while loop of next_layer_name, entered with `name` and `index` *)
RECURSIVE next_layer_name_loop(_, _, _, _)
next_layer_name_loop(names, base_name, name, index) ==
    IF name \in names
    THEN next_layer_name_loop(names, base_name,
                              base_name \o "_auto_" \o ToString(index), index + 1)
    ELSE name

(* the name next_layer_name adds to `names` and returns *)
next_layer_name(names, base_name) == next_layer_name_loop(names, base_name, base_name, 0)

NextLayerName ==
    \E scope \in NameScopes, prefix \in LayerPrefixes :
        LET name == next_layer_name(_layer_names, ScopedName(scope, prefix)) IN
        /\ Len(returned_names) < MaxLayerNames
        /\ _layer_names' = _layer_names \cup {name}
        /\ returned_names' = Append(returned_names, name)
        /\ last_call' = Call("next_layer_name", [scope |-> scope, prefix |-> prefix], "ok", name)
        /\ UNCHANGED <<constVars, lossVars, outVars, metricVars, paramVars, seedVars, layerVars, regVars, dispatchVars>>

----------------------------------------------------------------------------
(* Loss *)

(* The schema objects the calls are tried with, by name.  A stored schema is a
   record: its kind, its blob (Scalar, List) and its top-level fields (Struct). *)
LossArgs == {None, "Scalar:l1", "Scalar:l2", "Struct:x", "List:l1"}
LossNames == {"unnamed", "unnamed_auto_0", "reg"}

SchemaKind(v) ==
    IF v = None THEN "None"
    ELSE IF v \in {"Scalar:l1", "Scalar:l2"} THEN "Scalar"
    ELSE IF v = "Struct:x" THEN "Struct"
    ELSE "List"

NoSchema == [kind |-> "None", blob |-> None, fields |-> EmptyDict]
AsSchema(v) ==
    IF v = None THEN NoSchema
    ELSE IF v = "Scalar:l1" THEN [kind |-> "Scalar", blob |-> "l1", fields |-> EmptyDict]
    ELSE IF v = "Scalar:l2" THEN [kind |-> "Scalar", blob |-> "l2", fields |-> EmptyDict]
    ELSE IF v = "Struct:x" THEN [kind |-> "Struct", blob |-> None,
                                 fields |-> DictPut(EmptyDict, "x", "Scalar:l1")]
    ELSE [kind |-> "List", blob |-> "l1", fields |-> EmptyDict]

(* schema.Struct((name, field)) *)
Struct1(name, field) ==
    [kind |-> "Struct", blob |-> None, fields |-> DictPut(EmptyDict, name, field)]

(* Struct + Struct when no field name is shared *)
StructAdd(s1, s2) ==
    [kind |-> "Struct", blob |-> None,
     fields |-> [n \in DOMAIN s1.fields \cup DOMAIN s2.fields |->
                    IF n \in DOMAIN s1.fields THEN s1.fields[n] ELSE s2.fields[n]]]

(* has_loss() *)
has_loss == _loss # NoSchema

(* mutant of add_loss_prefix: `if` instead of `while`, a single retry *)
add_loss_prefix_single_retry(loss_struct, name) ==
    IF name \in DOMAIN loss_struct.fields THEN name \o "_auto_" \o ToString(0) ELSE name

(* the while loop of add_loss, entered with `prefix` and `index` *)
RECURSIVE add_loss_loop(_, _, _, _)
add_loss_loop(loss_struct, name, prefix, index) ==
    IF prefix \in DOMAIN loss_struct.fields
    THEN add_loss_loop(loss_struct, name, name \o "_auto_" \o ToString(index), index + 1)
    ELSE prefix

(* the field name add_loss stores a loss under when self._loss is a Struct *)
add_loss_prefix(loss_struct, name) == add_loss_loop(loss_struct, name, name, 0)

(* add_loss(loss, name) *)
add_loss(loss, name) ==
    LET a == [loss |-> loss, name |-> name] IN
    IF loss = None
    THEN /\ UNCHANGED lossVars
         /\ last_call' = Call("add_loss", a, "AssertionError: Added loss should not be None", None)
    ELSE IF SchemaKind(loss) \notin {"Scalar", "Struct"}
    THEN /\ UNCHANGED lossVars
         /\ last_call' = Call("add_loss", a,
                              "AssertionError: Added loss should be a scalar or a struct", None)
    ELSE IF _loss = NoSchema
    THEN /\ _loss' = Struct1(name, loss)
         /\ loss_log' = Append(loss_log, [via |-> "add_loss", field |-> name, loss |-> loss])
         /\ last_call' = Call("add_loss", a, "ok", name)
    ELSE IF _loss.kind # "Struct"
    THEN \* `prefix in self._loss` on a schema that is no container
         /\ UNCHANGED lossVars
         /\ last_call' = Call("add_loss", a, "TypeError", None)
    ELSE LET prefix == add_loss_prefix(_loss, name) IN
         IF prefix \in DOMAIN _loss.fields
         THEN \* Struct.__add__ refuses a shared field name
              /\ UNCHANGED lossVars
              /\ last_call' = Call("add_loss", a, "ValueError: Duplicate field name", None)
         ELSE /\ _loss' = StructAdd(_loss, Struct1(prefix, loss))
              /\ loss_log' = Append(loss_log, [via |-> "add_loss", field |-> prefix, loss |-> loss])
              /\ last_call' = Call("add_loss", a, "ok", prefix)

AddLoss ==
    \E loss \in LossArgs, name \in LossNames :
        /\ Len(loss_log) < MaxLosses
        /\ add_loss(loss, name)
        /\ UNCHANGED <<constVars, nameVars, outVars, metricVars, paramVars, seedVars, layerVars, regVars, dispatchVars>>

(* mutant of loss_setter: the assertion is missing *)
loss_setter_unchecked(loss) ==
    /\ _loss' = AsSchema(loss)
    /\ loss_log' = IF loss = None THEN loss_log
                   ELSE Append(loss_log, [via |-> "setter", field |-> None, loss |-> loss])
    /\ last_call' = Call("loss.setter", [loss |-> loss], "ok", None)

(* @loss.setter *)
loss_setter(loss) ==
    IF _loss # NoSchema
    THEN /\ UNCHANGED lossVars
         /\ last_call' = Call("loss.setter", [loss |-> loss], "AssertionError", None)
    ELSE /\ _loss' = AsSchema(loss)
         /\ loss_log' = IF loss = None THEN loss_log
                        ELSE Append(loss_log, [via |-> "setter", field |-> None, loss |-> loss])
         /\ last_call' = Call("loss.setter", [loss |-> loss], "ok", None)

LossSetter ==
    \E loss \in LossArgs :
        /\ Len(loss_log) < MaxLosses
        /\ loss_setter(loss)
        /\ UNCHANGED <<constVars, nameVars, outVars, metricVars, paramVars, seedVars, layerVars, regVars, dispatchVars>>

(* @property loss *)
LossGetter ==
    /\ last_call' = IF _loss = NoSchema
                    THEN Call("loss.getter", NoArgs, "AssertionError", None)
                    ELSE Call("loss.getter", NoArgs, "ok", _loss.kind)
    /\ UNCHANGED lossVars
    /\ UNCHANGED <<constVars, nameVars, outVars, metricVars, paramVars, seedVars, layerVars, regVars, dispatchVars>>

----------------------------------------------------------------------------
(* Output schema *)

OutputSchemas == {None, "out1", "out2"}

(* mutant of output_schema_setter: the assertion is missing *)
output_schema_setter_unchecked(schema) ==
    /\ _output_schema' = schema
    /\ sets_since_clear' = Append(sets_since_clear, schema)
    /\ last_call' = Call("output_schema.setter", [schema |-> schema], "ok", None)

(* @output_schema.setter *)
output_schema_setter(schema) ==
    IF _output_schema # None
    THEN /\ UNCHANGED outVars
         /\ last_call' = Call("output_schema.setter", [schema |-> schema], "AssertionError", None)
    ELSE /\ _output_schema' = schema
         /\ sets_since_clear' = Append(sets_since_clear, schema)
         /\ last_call' = Call("output_schema.setter", [schema |-> schema], "ok", None)

OutputSchemaSetter ==
    \E schema \in OutputSchemas :
        /\ Len(sets_since_clear) < MaxSets
        /\ output_schema_setter(schema)
        /\ UNCHANGED <<constVars, nameVars, lossVars, metricVars, paramVars, seedVars, layerVars, regVars, dispatchVars>>

(* @property output_schema *)
OutputSchemaGetter ==
    /\ last_call' = IF _output_schema = None
                    THEN Call("output_schema.getter", NoArgs, "AssertionError", None)
                    ELSE Call("output_schema.getter", NoArgs, "ok", _output_schema)
    /\ UNCHANGED outVars
    /\ UNCHANGED <<constVars, nameVars, lossVars, metricVars, paramVars, seedVars, layerVars, regVars, dispatchVars>>

(* clear_output_schema() *)
ClearOutputSchema ==
    /\ _output_schema' = None
    /\ sets_since_clear' = <<>>
    /\ last_call' = Call("clear_output_schema", NoArgs, "ok", None)
    /\ UNCHANGED <<constVars, nameVars, lossVars, metricVars, paramVars, seedVars, layerVars, regVars, dispatchVars>>

----------------------------------------------------------------------------
(* Metrics schema *)

MetricNames == {"m1", "m2", "m3"}
MetricValues == {"Scalar:l1", "Scalar:l2"}

(* schema.Struct() *)
Struct0 == [kind |-> "Struct", blob |-> None, fields |-> EmptyDict]

(* mutant of add_metric_field: the assertion is missing and the Struct sum
   meets the shared field name *)
add_metric_field_unchecked(name, value) ==
    LET a == [name |-> name, value |-> value] IN
    IF name \in DOMAIN _metrics_schema.fields
    THEN /\ UNCHANGED metricVars
         /\ last_call' = Call("add_metric_field", a, "ValueError: Duplicate field name", None)
    ELSE /\ _metrics_schema' = StructAdd(_metrics_schema, Struct1(name, value))
         /\ metric_log' = Append(metric_log, name)
         /\ last_call' = Call("add_metric_field", a, "ok", None)

(* add_metric_field(name, value) *)
add_metric_field(name, value) ==
    LET a == [name |-> name, value |-> value] IN
    IF name \in DOMAIN _metrics_schema.fields
    THEN /\ UNCHANGED metricVars
         /\ last_call' = Call("add_metric_field", a,
                              "AssertionError: Try to add metric field twice", None)
    ELSE /\ _metrics_schema' = StructAdd(_metrics_schema, Struct1(name, value))
         /\ metric_log' = Append(metric_log, name)
         /\ last_call' = Call("add_metric_field", a, "ok", None)

AddMetricField ==
    \E name \in MetricNames, value \in MetricValues :
        /\ add_metric_field(name, value)
        /\ UNCHANGED <<constVars, nameVars, lossVars, outVars, paramVars, seedVars, layerVars, regVars, dispatchVars>>

----------------------------------------------------------------------------
(* Parameters *)

(* shape arguments: None, (2,), (2, 3) *)
NoShape == [none |-> TRUE, dims |-> <<>>]
Shape(dims) == [none |-> FALSE, dims |-> dims]
Shapes == {NoShape, Shape(<<2>>), Shape(<<2, 3>>)}

(* param_name arguments: a BlobReference, a string, or anything else *)
ParamNameArgs ==
    { [kind |-> "blob", name |-> "a/w"], [kind |-> "str", name |-> "w"],
      [kind |-> "other", name |-> "w"] }

(* initializer arguments: (op,), (op, {}), (op, {'shape': ...}), (op, {}, x) *)
Initializers ==
    { [len |-> 1, has_shape |-> FALSE], [len |-> 2, has_shape |-> FALSE],
      [len |-> 2, has_shape |-> TRUE], [len |-> 3, has_shape |-> FALSE] }

(* the name scopes create_param is called under; scope b/ shares its
   parameters with scope a/ (ParameterSharing({'b': 'a'})) *)
ParamScopes == {"a/", "b/", "c/"}
SharedScope(scope) == IF scope = "b/" THEN "a/" ELSE scope

(* parameter_sharing_context.get_parameter_name(param_name) *)
get_parameter_name(scope, name) == SharedScope(scope) \o name

(* the resolved parameter name of create_param (kind is "blob" or "str") *)
ResolveParamName(scope, pname) ==
    IF pname.kind = "blob" THEN pname.name ELSE get_parameter_name(scope, pname.name)

(* the assertions create_param makes on initializer and shape *)
InitOpArgsOk(shape, initializer) ==
    /\ initializer.len \in {1, 2}
    /\ shape # NoShape => ~initializer.has_shape

(* mutant of _validate_param_shape: the comparison is missing *)
_validate_param_shape_unchecked(param_name, shape) == TRUE

(* _validate_param_shape(param_name, shape): TRUE when it returns, FALSE when
   it raises ValueError *)
_validate_param_shape(param_name, shape) ==
    IF param_name \notin DOMAIN _param_to_shape
    THEN TRUE
    ELSE shape = _param_to_shape[param_name]

(* create_param(param_name, shape, initializer, ...) called under `scope` *)
create_param(scope, pname, shape, initializer) ==
    LET a == [scope |-> scope, param_name |-> pname, shape |-> shape,
              initializer |-> initializer] IN
    IF pname.kind \notin {"blob", "str"}
    THEN /\ UNCHANGED paramVars
         /\ last_call' = Call("create_param", a, "TypeError", None)
    ELSE LET param_name == ResolveParamName(scope, pname) IN
         IF ~InitOpArgsOk(shape, initializer)
         THEN /\ UNCHANGED paramVars
              /\ last_call' = Call("create_param", a, "AssertionError", None)
         ELSE IF ~_validate_param_shape(param_name, shape)
         THEN /\ UNCHANGED paramVars
              /\ last_call' = Call("create_param", a,
                     "ValueError: Got inconsistent shapes between shared parameters", None)
         ELSE /\ _param_to_shape' = DictPut(_param_to_shape, param_name, shape)
              /\ first_shape' = IF param_name \in DOMAIN first_shape THEN first_shape
                                ELSE DictPut(first_shape, param_name, shape)
              /\ last_call' = Call("create_param", a, "ok", param_name)

CreateParam ==
    \E scope \in ParamScopes, pname \in ParamNameArgs, shape \in Shapes,
       initializer \in Initializers :
        /\ create_param(scope, pname, shape, initializer)
        /\ UNCHANGED <<constVars, nameVars, lossVars, outVars, metricVars, seedVars, layerVars, regVars, dispatchVars>>

----------------------------------------------------------------------------
(* Seed *)

(* seed arguments: None and the integers 0, 1, -1 *)
NoSeed == [none |-> TRUE, value |-> 0]
Seed(v) == [none |-> FALSE, value |-> v]
Seeds == {NoSeed, Seed(0), Seed(1), Seed(0 - 1)}

(* the nets apply_seed is called on, and a net no set_rand_seed call has reached *)
SeedNets == {"train_net", "eval_net"}
NoRandSeed == [set |-> FALSE, seed |-> 0, sequence_seed |-> FALSE]

(* `if self._seed:` -- Python truth of the stored seed *)
SeedIsTrue(seed) == ~seed.none /\ seed.value # 0

(* store_seed(seed, sequence_seed=True) *)
StoreSeed ==
    \E seed \in Seeds, sequence_seed \in BOOLEAN :
        /\ _seed' = seed
        /\ _sequence_seed' = sequence_seed
        /\ seed_stored' = TRUE
        /\ UNCHANGED net_rand_seed
        /\ last_call' = Call("store_seed", [seed |-> seed, sequence_seed |-> sequence_seed],
                             "ok", None)
        /\ UNCHANGED <<constVars, nameVars, lossVars, outVars, metricVars, paramVars, layerVars, regVars, dispatchVars>>

(* apply_seed(net) *)
ApplySeed ==
    \E net \in SeedNets :
        /\ IF SeedIsTrue(_seed)
           THEN /\ net_rand_seed' =
                       [net_rand_seed EXCEPT ![net] =
                           [set |-> TRUE, seed |-> _seed.value, sequence_seed |-> _sequence_seed]]
                /\ last_call' = Call("apply_seed", [net |-> net], "ok", "set_rand_seed")
           ELSE /\ UNCHANGED net_rand_seed
                /\ last_call' = Call("apply_seed", [net |-> net], "ok", None)
        /\ UNCHANGED <<_seed, _sequence_seed, seed_stored>>
        /\ UNCHANGED <<constVars, nameVars, lossVars, outVars, metricVars, paramVars, layerVars, regVars, dispatchVars>>

----------------------------------------------------------------------------
(* Layers, optimizers *)

Optimizers == {None, "sgd", "adagrad"}

(* regularizers: None, two applied on the loss, one applied after the optimizer *)
Regularizers == {None, "L1Norm", "L2Norm", "MaxNorm"}
apply_after_optimizer(regularizer) == regularizer = "MaxNorm"

(* a parameter of a layer: param.parameter (by name; is_blob tells whether it
   is a core.BlobReference), the class of param, param.optimizer and
   param.regularizer *)
Param(parameter, class, optimizer, regularizer) ==
    [parameter |-> parameter, is_blob |-> TRUE, class |-> class,
     optimizer |-> optimizer, regularizer |-> regularizer]

(* the layers add_layer is tried with: layer.get_parameters() by layer name *)
LayerArgs ==
    { [name |-> "fc1", parameters |-> <<Param("a/w", "LayerParameter", None, "L1Norm")>>],
      [name |-> "fc2", parameters |-> <<Param("a/w", "LayerParameter", "adagrad", "MaxNorm"),
                                        Param("a/b", "LayerParameter", None, None)>>],
      [name |-> "rnn", parameters |-> <<Param("r/w", "ParameterInfo", None, None)>>],
      [name |-> "odd", parameters |-> <<Param("o/w", "LayerParameter", "sgd", "L2Norm"),
                                        Param("r/w", "object", None, None)>>],
      [name |-> "str", parameters |->
            <<[Param("s/w", "LayerParameter", None, None) EXCEPT !.is_blob = FALSE]>>] }

(* mutant of OptimizerOr: the default wins over the parameter's own optimizer *)
OptimizerOr_default_first(optimizer, default) == IF default # None THEN default ELSE optimizer

(* `param.optimizer or self.default_optimizer` *)
OptimizerOr(optimizer, default) == IF optimizer # None THEN optimizer ELSE default

(* the initializer op layer.add_operators puts into param_init_net for a parameter *)
ParamInitOp(parameter) ==
    [type |-> "ParamInit", output |-> parameter, shape |-> <<>>, values |-> <<>>,
     debug_info |-> ""]

(* the loop of add_layer over parameters[i..], on the state st =
   [optim, reg, params, at_add, outcome] *)
RECURSIVE add_layer_loop(_, _, _, _)
add_layer_loop(st, parameters, i, default) ==
    IF i > Len(parameters) THEN st
    ELSE LET param == parameters[i] IN
         IF ~param.is_blob THEN [st EXCEPT !.outcome = "AssertionError"]
         ELSE LET st1 == [st EXCEPT
                            !.optim = DictPut(st.optim, param.parameter,
                                              OptimizerOr(param.optimizer, default)),
                            !.at_add = DictPut(st.at_add, param.parameter,
                                               [own |-> param.optimizer, default |-> default]),
                            !.params = Append(st.params, param.parameter)] IN
              IF param.class = "LayerParameter"
              THEN add_layer_loop([st1 EXCEPT !.reg = DictPut(st.reg, param.parameter,
                                                              param.regularizer)],
                                  parameters, i + 1, default)
              ELSE IF param.class = "ParameterInfo"
              THEN add_layer_loop(st1, parameters, i + 1, default)
              ELSE [st1 EXCEPT !.outcome = "ValueError: unknown object type"]

(* add_layer(layer), called as `op` *)
add_layer(op, a, layer) ==
    LET st == add_layer_loop([optim |-> param_to_optim, reg |-> param_to_reg,
                              params |-> params, at_add |-> optim_at_add, outcome |-> "ok"],
                             layer.parameters, 1, _default_optimizer) IN
    /\ _layers' = Append(_layers, layer.name)
    /\ param_to_optim' = st.optim
    /\ param_to_reg' = st.reg
    /\ params' = st.params
    /\ optim_at_add' = st.at_add
    /\ UNCHANGED _default_optimizer
    /\ param_init_net' =
          IF st.outcome = "ok"
          THEN param_init_net \cup {ParamInitOp(layer.parameters[i].parameter) :
                                        i \in 1..Len(layer.parameters)}
          ELSE param_init_net
    /\ UNCHANGED <<global_constants, global_constant_initializers, net_blobs, first_ret,
                   init_nets>>
    /\ last_call' = Call(op, a, st.outcome, IF st.outcome = "ok" THEN layer.name ELSE None)

AddLayer ==
    \E layer \in LayerArgs :
        /\ Len(_layers) < MaxLayers
        /\ add_layer("add_layer", [layer |-> layer.name], layer)
        /\ UNCHANGED <<nameVars, lossVars, outVars, metricVars, paramVars, seedVars, regVars, dispatchVars>>

(* @default_optimizer.setter *)
DefaultOptimizerSetter ==
    \E optimizer \in Optimizers :
        /\ _default_optimizer' = optimizer
        /\ UNCHANGED <<_layers, params, param_to_optim, param_to_reg, optim_at_add>>
        /\ last_call' = Call("default_optimizer.setter", [optimizer |-> optimizer], "ok", None)
        /\ UNCHANGED <<constVars, nameVars, lossVars, outVars, metricVars, paramVars, seedVars, regVars, dispatchVars>>

(* the orders a dict with key set S can be iterated in *)
Orders(S) ==
    {o \in [1..Cardinality(S) -> S] : \A i, j \in 1..Cardinality(S) : i # j => o[i] # o[j]}

(* the parameters whose optimizer apply_optimizers has invoked when the loop
   over `order` ends: all of them, or those before the first None optimizer *)
RECURSIVE apply_optimizers_loop(_, _, _)
apply_optimizers_loop(order, i, invoked) ==
    IF i > Len(order) THEN [outcome |-> "ok", invoked |-> invoked]
    ELSE IF param_to_optim[order[i]] = None
    THEN [outcome |-> "AssertionError: default optimizer must have been set in add_layer",
          invoked |-> invoked]
    ELSE apply_optimizers_loop(order, i + 1, Append(invoked, order[i]))

(* apply_optimizers(train_net, train_init_net, grad_map, blob_to_device) *)
ApplyOptimizers ==
    \E order \in Orders(DOMAIN param_to_optim) :
        LET r == apply_optimizers_loop(order, 1, <<>>) IN
        /\ last_call' = Call("apply_optimizers", [order |-> order, invoked |-> r.invoked],
                             r.outcome, None)
        /\ UNCHANGED layerVars
        /\ UNCHANGED <<constVars, nameVars, lossVars, outVars, metricVars, paramVars, seedVars, regVars, dispatchVars>>

----------------------------------------------------------------------------
(* Regularizers *)

(* the blobs a regularizer may return as its added loss *)
RegBlobs == {"reg_a", "reg_b"}

(* add_loss(loss, name) for a schema.Scalar `loss`, on the loss `current`:
   the loss afterwards, the field the Scalar went to, and how the call ended *)
add_loss_scalar(current, loss, name) ==
    IF current = NoSchema
    THEN [loss |-> Struct1(name, loss), field |-> name, outcome |-> "ok"]
    ELSE IF current.kind # "Struct"
    THEN [loss |-> current, field |-> None, outcome |-> "TypeError"]
    ELSE LET prefix == add_loss_prefix(current, name) IN
         IF prefix \in DOMAIN current.fields
         THEN [loss |-> current, field |-> None, outcome |-> "ValueError: Duplicate field name"]
         ELSE [loss |-> StructAdd(current, Struct1(prefix, loss)), field |-> prefix,
               outcome |-> "ok"]

(* mutant of skip_on_loss: apply_after_optimizer is not looked at *)
skip_on_loss_none_only(regularizer) == regularizer = None

(* the `continue` tests of the two passes *)
skip_on_loss(regularizer) == regularizer = None \/ apply_after_optimizer(regularizer)
skip_after_optimizer(regularizer) == regularizer = None \/ ~apply_after_optimizer(regularizer)

(* the loop of apply_regularizers_on_loss over order[i..]; blobs[param] is what
   the regularizer of param returns; st = [loss, log, invoked, outcome] *)
RECURSIVE on_loss_loop(_, _, _, _)
on_loss_loop(order, i, blobs, st) ==
    IF i > Len(order) THEN st
    ELSE IF skip_on_loss(param_to_reg[order[i]]) THEN on_loss_loop(order, i + 1, blobs, st)
    ELSE LET added_loss_blob == blobs[order[i]]
             r == add_loss_scalar(st.loss, "Scalar:" \o added_loss_blob, added_loss_blob)
             st1 == [st EXCEPT !.invoked = Append(st.invoked, order[i])] IN
         IF r.outcome # "ok" THEN [st1 EXCEPT !.outcome = r.outcome]
         ELSE on_loss_loop(order, i + 1, blobs,
                           [st1 EXCEPT !.loss = r.loss,
                                       !.log = Append(st.log,
                                                      [via |-> "add_loss", field |-> r.field,
                                                       loss |-> "Scalar:" \o added_loss_blob])])

(* apply_regularizers_on_loss(train_net, train_init_net, blob_to_device) *)
ApplyRegularizersOnLoss ==
    \E order \in Orders(DOMAIN param_to_reg) :
    \E blobs \in [{p \in DOMAIN param_to_reg : ~skip_on_loss(param_to_reg[p])} -> RegBlobs] :
        LET st == on_loss_loop(order, 1, blobs,
                               [loss |-> _loss, log |-> loss_log, invoked |-> <<>>,
                                outcome |-> "ok"]) IN
        /\ Len(pass_log) < MaxPasses
        /\ _loss' = st.loss
        /\ loss_log' = st.log
        /\ pass_log' = Append(pass_log, [pass |-> "on_loss", regs |-> param_to_reg,
                                         invoked |-> st.invoked, outcome |-> st.outcome])
        /\ last_call' = Call("apply_regularizers_on_loss",
                             [order |-> order, invoked |-> st.invoked], st.outcome, None)
        /\ UNCHANGED <<constVars, nameVars, outVars, metricVars, paramVars, seedVars, layerVars,
                       dispatchVars>>

(* the parameters apply_regularizers_after_optimizer invokes, in order *)
RECURSIVE after_optimizer_loop(_, _, _)
after_optimizer_loop(order, i, invoked) ==
    IF i > Len(order) THEN invoked
    ELSE IF skip_after_optimizer(param_to_reg[order[i]])
    THEN after_optimizer_loop(order, i + 1, invoked)
    ELSE after_optimizer_loop(order, i + 1, Append(invoked, order[i]))

(* apply_regularizers_after_optimizer(train_net, train_init_net, grad_map, ...) *)
ApplyRegularizersAfterOptimizer ==
    \E order \in Orders(DOMAIN param_to_reg) :
        LET invoked == after_optimizer_loop(order, 1, <<>>) IN
        /\ Len(pass_log) < MaxPasses
        /\ pass_log' = Append(pass_log, [pass |-> "after_optimizer", regs |-> param_to_reg,
                                         invoked |-> invoked, outcome |-> "ok"])
        /\ last_call' = Call("apply_regularizers_after_optimizer",
                             [order |-> order, invoked |-> invoked], "ok", None)
        /\ UNCHANGED <<constVars, nameVars, lossVars, outVars, metricVars, paramVars, seedVars,
                       layerVars, dispatchVars>>

----------------------------------------------------------------------------
(* __getattr__: attribute dispatch to the layer and operator registries *)

(* layers.layer_exists: the registered layer classes *)
LayerRegistry == {"FC", "Concat", "Functional", "__Hidden"}

(* core.IsOperator: the registered operators *)
OperatorRegistry == {"Relu", "Concat", "__Hidden"}

(* the attribute names asked of the model *)
AttrNames == {"__deepcopy__", "__Hidden", "FC", "Concat", "Relu", "Bogus"}

(* the `name` keyword given to a wrapper; None when the caller gave none *)
WrapperNames == {None, "my"}

layer_exists(layer) == layer \in LayerRegistry
IsOperator(layer) == layer \in OperatorRegistry

(* str.startswith *)
startswith(s, prefix) == Len(s) >= Len(prefix) /\ SubSeq(s, 1, Len(prefix)) = prefix

NoWrapper == [kind |-> "none", layer |-> None]
Event(call, type, name) == [call |-> call, type |-> type, name |-> name]

(* mutant of __getattr__: the operator registry is asked before the layer
   registry *)
getattr_operator_first(layer) ==
    IF startswith(layer, "__")
    THEN [outcome |-> "AttributeError", wrapper |-> NoWrapper, trace |-> <<>>]
    ELSE IF IsOperator(layer)
    THEN [outcome |-> "ok", wrapper |-> [kind |-> "operator", layer |-> layer],
          trace |-> <<Event("IsOperator", None, layer)>>]
    ELSE IF layer_exists(layer)
    THEN [outcome |-> "ok", wrapper |-> [kind |-> "layer", layer |-> layer],
          trace |-> <<Event("IsOperator", None, layer), Event("layer_exists", None, layer)>>]
    ELSE [outcome |-> "ValueError: Trying to create non-registered layer",
          wrapper |-> NoWrapper,
          trace |-> <<Event("IsOperator", None, layer), Event("layer_exists", None, layer)>>]

(* __getattr__(layer): the outcome, the wrapper returned and the registries
   asked, in order *)
__getattr__(layer) ==
    IF startswith(layer, "__")
    THEN [outcome |-> "AttributeError", wrapper |-> NoWrapper, trace |-> <<>>]
    ELSE IF layer_exists(layer)
    THEN [outcome |-> "ok", wrapper |-> [kind |-> "layer", layer |-> layer],
          trace |-> <<Event("layer_exists", None, layer)>>]
    ELSE IF IsOperator(layer)
    THEN [outcome |-> "ok", wrapper |-> [kind |-> "operator", layer |-> layer],
          trace |-> <<Event("layer_exists", None, layer), Event("IsOperator", None, layer)>>]
    ELSE [outcome |-> "ValueError: Trying to create non-registered layer",
          wrapper |-> NoWrapper,
          trace |-> <<Event("layer_exists", None, layer), Event("IsOperator", None, layer)>>]

GetAttr ==
    \E layer \in AttrNames :
        LET r == __getattr__(layer) IN
        /\ wrapper' = IF r.outcome = "ok" THEN r.wrapper ELSE wrapper
        /\ trace' = r.trace
        /\ last_call' = Call("__getattr__", [layer |-> layer], r.outcome,
                             IF r.outcome = "ok" THEN "wrapper" ELSE None)
        /\ UNCHANGED <<constVars, nameVars, lossVars, outVars, metricVars, paramVars, seedVars,
                       layerVars, regVars>>

(* the default of the `name` argument of a layer class *)
DefaultLayerName(layer_type) ==
    CASE layer_type = "FC" -> "fc"
      [] layer_type = "Concat" -> "concat"
      [] OTHER -> "functional"

(* the parameters a layer of the class creates *)
LayerParameters(layer_type, name) ==
    IF layer_type = "FC"
    THEN <<Param(name \o "/w", "LayerParameter", None, "L2Norm")>>
    ELSE <<>>

(* layers.create_layer(layer_type, model, *args, **kwargs): the new layer takes
   its name from model.next_layer_name *)
create_layer(layer_type, kwargs, scope, names) ==
    LET base == IF kwargs.name # None THEN kwargs.name ELSE DefaultLayerName(layer_type)
        name == next_layer_name(names, ScopedName(scope, base)) IN
    [name |-> name, type |-> layer_type, parameters |-> LayerParameters(layer_type, name)]

(* add_metric_field(name, value) on the metrics schema `metrics` *)
add_metric_field_to(metrics, name, value) ==
    IF name \in DOMAIN metrics.fields
    THEN [outcome |-> "AssertionError: Try to add metric field twice", schema |-> metrics,
          added |-> <<>>]
    ELSE [outcome |-> "ok", schema |-> StructAdd(metrics, Struct1(name, value)),
          added |-> <<name>>]

(* new_layer.export_output_for_metrics() *)
export_output_for_metrics(metrics, new_layer) ==
    add_metric_field_to(metrics, new_layer.name \o "/output", "Scalar:" \o new_layer.name)

(* new_layer.export_params_for_metrics(): one metric field per parameter *)
RECURSIVE export_params_for_metrics(_, _, _)
export_params_for_metrics(metrics, new_layer, i) ==
    IF i > Len(new_layer.parameters)
    THEN [outcome |-> "ok", schema |-> metrics, added |-> <<>>]
    ELSE LET param == new_layer.parameters[i].parameter
             r == add_metric_field_to(metrics, param, "Scalar:" \o param) IN
         IF r.outcome # "ok" THEN r
         ELSE LET rest == export_params_for_metrics(r.schema, new_layer, i + 1) IN
              [rest EXCEPT !.added = r.added \o rest.added]

(* the body of a wrapper up to its add_layer call: the keyword arguments passed
   to create_layer, the new layer, the metrics exports and the calls made *)
wrapper_body(w, kwargs, scope) ==
    LET layer_type == IF w.kind = "layer" THEN w.layer ELSE "Functional"
        kwargs1 == IF w.kind = "operator" /\ kwargs.name = None
                   THEN [kwargs EXCEPT !.name = w.layer]
                   ELSE kwargs
        new_layer == create_layer(layer_type, kwargs1, scope, _layer_names)
        t0 == <<Event("create_layer", layer_type, kwargs1.name)>>
        r1 == IF kwargs1.output_to_metrics
              THEN export_output_for_metrics(_metrics_schema, new_layer)
              ELSE [outcome |-> "ok", schema |-> _metrics_schema, added |-> <<>>]
        t1 == IF kwargs1.output_to_metrics
              THEN Append(t0, Event("export_output_for_metrics", layer_type, new_layer.name))
              ELSE t0
        r2 == IF r1.outcome = "ok" /\ kwargs1.params_to_metrics
              THEN export_params_for_metrics(r1.schema, new_layer, 1)
              ELSE [r1 EXCEPT !.added = <<>>]
        t2 == IF r1.outcome = "ok" /\ kwargs1.params_to_metrics
              THEN Append(t1, Event("export_params_for_metrics", layer_type, new_layer.name))
              ELSE t1 IN
    [new_layer |-> new_layer, outcome |-> r2.outcome, schema |-> r2.schema,
     added |-> r1.added \o r2.added, trace |-> t2]

(* a call of the wrapper held by the caller *)
CallWrapper ==
    \E scope \in NameScopes, name \in WrapperNames,
       output_to_metrics \in BOOLEAN, params_to_metrics \in BOOLEAN :
        LET kwargs == [name |-> name, output_to_metrics |-> output_to_metrics,
                       params_to_metrics |-> params_to_metrics]
            a == [layer |-> wrapper.layer, name |-> name, scope |-> scope,
                  output_to_metrics |-> output_to_metrics,
                  params_to_metrics |-> params_to_metrics]
            b == wrapper_body(wrapper, kwargs, scope) IN
        /\ wrapper.kind # "none"
        /\ Len(_layers) < MaxLayers
        /\ _layer_names' = _layer_names \cup {b.new_layer.name}
        /\ returned_names' = Append(returned_names, b.new_layer.name)
        /\ _metrics_schema' = b.schema
        /\ metric_log' = metric_log \o b.added
        /\ IF b.outcome = "ok"
           THEN /\ add_layer("wrapper", a, b.new_layer)
                /\ trace' = Append(b.trace, Event("add_layer", b.new_layer.type,
                                                  b.new_layer.name))
           ELSE /\ last_call' = Call("wrapper", a, b.outcome, None)
                /\ trace' = b.trace
                /\ UNCHANGED <<constVars, layerVars>>
        /\ UNCHANGED <<lossVars, outVars, paramVars, seedVars, regVars, wrapper>>

----------------------------------------------------------------------------
(* __init__ *)
Init ==
    \E dbg \in DebugInfos :
        /\ global_constants = _init_global_constants(dbg).constants
        /\ global_constant_initializers = _init_global_constants(dbg).initializers
        /\ net_blobs = {"ONE", "ZERO", "ZERO_RANGE"}
        /\ first_ret = _init_global_constants(dbg).constants
        /\ param_init_net = _add_global_constants(_init_global_constants(dbg).initializers)
        /\ init_nets = <<>>
        /\ _layer_names = {}
        /\ returned_names = <<>>
        /\ _loss = NoSchema
        /\ loss_log = <<>>
        /\ _output_schema = None
        /\ sets_since_clear = <<>>
        /\ _metrics_schema = Struct0
        /\ metric_log = <<>>
        /\ _param_to_shape = EmptyDict
        /\ first_shape = EmptyDict
        /\ _seed = NoSeed
        /\ _sequence_seed = TRUE
        /\ seed_stored = FALSE
        /\ net_rand_seed = [n \in SeedNets |-> NoRandSeed]
        /\ _layers = <<>>
        /\ params = <<>>
        /\ param_to_optim = EmptyDict
        /\ param_to_reg = EmptyDict
        /\ _default_optimizer = None
        /\ optim_at_add = EmptyDict
        /\ pass_log = <<>>
        /\ wrapper = NoWrapper
        /\ trace = <<>>
        /\ last_call = Call("__init__", NoArgs, "ok", None)

NextConstants == AddGlobalConstant \/ MaybeAddGlobalConstant \/ CreateInitNet \/ NetNextBlob
SpecConstants == Init /\ [][NextConstants]_vars

NextNames == NextLayerName
SpecNames == Init /\ [][NextNames]_vars

NextLoss == AddLoss \/ LossSetter \/ LossGetter
SpecLoss == Init /\ [][NextLoss]_vars

NextSchemas == OutputSchemaSetter \/ OutputSchemaGetter \/ ClearOutputSchema \/ AddMetricField
SpecSchemas == Init /\ [][NextSchemas]_vars

NextParams == CreateParam
SpecParams == Init /\ [][NextParams]_vars

NextSeed == StoreSeed \/ ApplySeed
SpecSeed == Init /\ [][NextSeed]_vars

NextOptim == AddLayer \/ DefaultOptimizerSetter \/ ApplyOptimizers
SpecOptim == Init /\ [][NextOptim]_vars

NextReg == AddLayer \/ ApplyRegularizersOnLoss \/ ApplyRegularizersAfterOptimizer
SpecReg == Init /\ [][NextReg]_vars

NextDispatch == GetAttr \/ CallWrapper
SpecDispatch == Init /\ [][NextDispatch]_vars

(* The whole helper.  The groups of methods above work on disjoint parts of
   the state, so each group is explored under its own specification. *)
Next == NextConstants \/ NextNames \/ NextLoss \/ NextSchemas \/ NextParams \/ NextSeed
        \/ NextOptim \/ NextReg \/ NextDispatch
Spec == Init /\ [][Next]_vars

----------------------------------------------------------------------------
(* Properties of the global constant pool *)

(* two initializer ops are the same op up to debug_info *)
SameInitializer(o1, o2) ==
    /\ o1.type = o2.type
    /\ o1.output = o2.output
    /\ o1.shape = o2.shape
    /\ o1.values = o2.values

(* the initializer the call recorded in c would build for blob b *)
IntendedOp(c, b) == _get_global_constant_initializer_op(b, c.args.value, c.args.dbg)

(* name is registered with an initializer *)
FullyRegistered(name) ==
    /\ name \in DOMAIN global_constants
    /\ global_constants[name] \in DOMAIN global_constant_initializers

(* C1: a maybe_add_global_constant call on a registered name whose intended
   initializer equals the registered one up to debug_info returns the blob the
   first registration returned and changes neither map. *)
C1_MaybeAddDeduplicates ==
    [][LET c == last_call' IN
       (/\ c.op = "maybe_add_global_constant"
        /\ FullyRegistered(c.args.name)
        /\ InitializerArgsOk(c.args.value)
        /\ SameInitializer(IntendedOp(c, global_constants[c.args.name]),
                           global_constant_initializers[global_constants[c.args.name]]))
       => (/\ c.outcome = "ok"
           /\ c.ret = first_ret[c.args.name]
           /\ UNCHANGED <<global_constants, global_constant_initializers>>)]_vars

(* a deduplicated call has happened: the value (1.5 cast to int64) and the
   debug_info differ from what the registration was made with, the op does not *)
C1_Witness ==
    /\ last_call.op = "maybe_add_global_constant"
    /\ last_call.outcome = "ok"
    /\ last_call.args.name = "K"
    /\ last_call.args.value.array = Scalar("float", 3)
    /\ FullyRegistered("K")
    /\ last_call.ret = first_ret["K"]
    /\ last_call.ret = "K_auto_0"
    /\ global_constant_initializers[last_call.ret].debug_info # last_call.args.dbg

(* C2: on a registered name maybe_add_global_constant changes neither map, and
   when the intended initializer differs from the registered one it fails with
   the conflict assertion. *)
C2_MaybeAddNeverReplaces ==
    [][LET c == last_call' IN
       (c.op = "maybe_add_global_constant" /\ c.args.name \in DOMAIN global_constants)
       => (/\ UNCHANGED <<global_constants, global_constant_initializers>>
           /\ (/\ FullyRegistered(c.args.name)
               /\ InitializerArgsOk(c.args.value)
               /\ ~SameInitializer(IntendedOp(c, global_constants[c.args.name]),
                                   global_constant_initializers[global_constants[c.args.name]]))
              => c.outcome = "AssertionError: conflict initializers for global constant")]_vars

(* a conflicting call has happened on a constant of the constructor *)
C2_Witness ==
    /\ last_call.op = "maybe_add_global_constant"
    /\ last_call.outcome = "AssertionError: conflict initializers for global constant"
    /\ last_call.args.name = "ONE"
    /\ global_constant_initializers["ONE"].type = "GivenTensorFill"

(* C3: add_global_constant fails on a registered name and changes neither map;
   on a fresh name with a valid value it returns a new blob and adds exactly
   name -> blob and blob -> initializer op, keeping every other entry. *)
C3_AddGlobalConstant ==
    [][LET c == last_call' IN
       c.op = "add_global_constant"
       => IF c.args.name \in DOMAIN global_constants
          THEN /\ c.outcome = "AssertionError: already added in global_constants"
               /\ UNCHANGED <<global_constants, global_constant_initializers>>
          ELSE InitializerArgsOk(c.args.value)
               => /\ c.outcome = "ok"
                  /\ c.ret \notin DictValues(global_constants)
                  /\ c.ret \notin DOMAIN global_constant_initializers
                  /\ DOMAIN global_constants' = DOMAIN global_constants \cup {c.args.name}
                  /\ global_constants'[c.args.name] = c.ret
                  /\ \A n \in DOMAIN global_constants : global_constants'[n] = global_constants[n]
                  /\ DOMAIN global_constant_initializers' =
                        DOMAIN global_constant_initializers \cup {c.ret}
                  /\ SameInitializer(global_constant_initializers'[c.ret], IntendedOp(c, c.ret))
                  /\ \A b \in DOMAIN global_constant_initializers :
                        global_constant_initializers'[b] = global_constant_initializers[b]]_vars

(* a fresh constant was added while the net had already handed out its name *)
C3_Witness ==
    /\ last_call.op = "add_global_constant"
    /\ last_call.outcome = "ok"
    /\ last_call.args.name = "K"
    /\ last_call.ret = "K_auto_1"
    /\ global_constants["K"] = "K_auto_1"
    /\ global_constant_initializers["K_auto_1"].output = "K_auto_1"

(* a registered name was refused *)
C3_WitnessRefused ==
    /\ last_call.op = "add_global_constant"
    /\ last_call.outcome = "AssertionError: already added in global_constants"

(* C4: every init net of the model (param_init_net and every net returned by
   create_init_net) contains the initializer op of every registered global
   constant. *)
AllInitNets == {param_init_net} \cup {init_nets[i] : i \in 1..Len(init_nets)}
C4_ConstantsInAllInitNets ==
    \A net \in AllInitNets :
        \A b \in DOMAIN global_constant_initializers :
            global_constant_initializers[b] \in net

----------------------------------------------------------------------------
(* Properties of next_layer_name *)

AutoName(base_name, i) == base_name \o "_auto_" \o ToString(i)
Returned == {returned_names[i] : i \in 1..Len(returned_names)}

(* C5: the names next_layer_name has returned are pairwise distinct and all
   recorded in _layer_names; a call returns the scoped base name when it is
   unused and otherwise base_auto_i for the smallest i whose name is unused. *)
C5_ReturnedNamesDistinct ==
    /\ \A i, j \in 1..Len(returned_names) :
            i # j => returned_names[i] # returned_names[j]
    /\ Returned \subseteq _layer_names
C5_ReturnedNameRule ==
    LET c == last_call'
        base_name == ScopedName(c.args.scope, c.args.prefix) IN
    c.op = "next_layer_name"
    => /\ c.ret \notin _layer_names
       /\ c.ret \in _layer_names'
       /\ base_name \notin _layer_names => c.ret = base_name
       /\ base_name \in _layer_names
            => \E i \in 0..MaxLayerNames :
                   /\ c.ret = AutoName(base_name, i)
                   /\ \A j \in 0..(i - 1) : AutoName(base_name, j) \in _layer_names
C5_NextLayerName == []C5_ReturnedNamesDistinct /\ [][C5_ReturnedNameRule]_vars

(* "fc" was requested again after "fc" and "fc_auto_0" had both been handed
   out as requested prefixes: the call skipped to fc_auto_1 *)
C5_Witness ==
    /\ returned_names = <<"fc", "fc_auto_0", "fc_auto_1">>
    /\ last_call.op = "next_layer_name"
    /\ last_call.args.prefix = "fc"
    /\ last_call.ret = "fc_auto_1"

----------------------------------------------------------------------------
(* Properties of the loss *)

LossFields == DOMAIN _loss.fields
OnlyAddLoss == \A i \in 1..Len(loss_log) : loss_log[i].via = "add_loss"

(* C6: from a model with no loss, after n successful add_loss calls the loss
   struct has exactly n fields and holds every added loss under the field it
   was stored under; a call on a valid loss succeeds and stores it under `name`
   when that field is free and otherwise under name_auto_i for the smallest i
   whose field is free, adding that one field and changing no other. *)
C6_NothingLost ==
    (OnlyAddLoss /\ Len(loss_log) > 0)
    => /\ _loss.kind = "Struct"
       /\ Cardinality(LossFields) = Len(loss_log)
       /\ \A i \in 1..Len(loss_log) :
            /\ loss_log[i].field \in LossFields
            /\ _loss.fields[loss_log[i].field] = loss_log[i].loss
C6_FieldRule ==
    LET c == last_call' IN
    (/\ c.op = "add_loss"
     /\ SchemaKind(c.args.loss) \in {"Scalar", "Struct"}
     /\ _loss.kind \in {"None", "Struct"})
    => /\ c.outcome = "ok"
       /\ c.ret \notin LossFields
       /\ c.args.name \notin LossFields => c.ret = c.args.name
       /\ c.args.name \in LossFields
            => \E i \in 0..MaxLosses :
                   /\ c.ret = AutoName(c.args.name, i)
                   /\ \A j \in 0..(i - 1) : AutoName(c.args.name, j) \in LossFields
       /\ _loss'.kind = "Struct"
       /\ DOMAIN _loss'.fields = LossFields \cup {c.ret}
       /\ _loss'.fields[c.ret] = c.args.loss
       /\ \A n \in LossFields : _loss'.fields[n] = _loss.fields[n]
C6_AddLoss == []C6_NothingLost /\ [][C6_FieldRule]_vars

(* three losses were added; the third asked for "unnamed" while "unnamed" and
   "unnamed_auto_0" were taken and went to "unnamed_auto_1" *)
C6_Witness ==
    /\ OnlyAddLoss
    /\ Len(loss_log) = 3
    /\ LossFields = {"unnamed", "unnamed_auto_0", "unnamed_auto_1"}
    /\ last_call.op = "add_loss"
    /\ last_call.args.name = "unnamed"
    /\ last_call.ret = "unnamed_auto_1"

(* C7: the loss setter succeeds exactly while no loss is set and otherwise
   fails leaving the loss unchanged; the getter fails exactly when has_loss()
   is false; no step takes has_loss() from true to false. *)
C7_LossSetOnce ==
    [][LET c == last_call' IN
       /\ c.op = "loss.setter"
            => IF has_loss
               THEN c.outcome = "AssertionError" /\ UNCHANGED _loss
               ELSE c.outcome = "ok" /\ _loss' = AsSchema(c.args.loss)
       /\ c.op = "loss.getter" => (c.outcome = "AssertionError" <=> ~has_loss)
       /\ has_loss => has_loss']_vars

(* the setter was refused on a loss that add_loss had created *)
C7_Witness ==
    /\ last_call.op = "loss.setter"
    /\ last_call.outcome = "AssertionError"
    /\ Len(loss_log) > 0
    /\ loss_log[1].via = "add_loss"
    /\ has_loss

----------------------------------------------------------------------------
(* Properties of the output schema *)

(* how the setter and the getter end, and what clear_output_schema leaves *)
C8_SetterGetterRule ==
    LET c == last_call' IN
    /\ c.op = "output_schema.setter"
         => IF _output_schema # None
            THEN c.outcome = "AssertionError" /\ UNCHANGED _output_schema
            ELSE c.outcome = "ok" /\ _output_schema' = c.args.schema
    /\ c.op = "output_schema.getter" => (c.outcome = "AssertionError" <=> _output_schema = None)
    /\ c.op = "clear_output_schema" => _output_schema' = None

(* C8 as stated: the setter succeeds only when no output schema is set and
   otherwise fails leaving it unchanged, the getter fails exactly when none is
   set, clear_output_schema makes the setter succeed again, and between any two
   successful sets there is a clear_output_schema call. *)
C8_ClearBetweenAnyTwoSets ==
    [](Len(sets_since_clear) <= 1) /\ [][C8_SetterGetterRule]_vars

(* C8 amended: ... and between any two successful sets of a schema other than
   None there is a clear_output_schema call. *)
C8_OutputSchemaSetOnce ==
    [](Cardinality({i \in 1..Len(sets_since_clear) : sets_since_clear[i] # None}) <= 1)
    /\ [][C8_SetterGetterRule]_vars

(* a schema was set, refused to be replaced, cleared and set again; the last
   set followed a successful set of None without a clear in between *)
C8_Witness ==
    /\ sets_since_clear = <<None, "out2">>
    /\ _output_schema = "out2"
    /\ last_call.op = "output_schema.setter"
    /\ last_call.outcome = "ok"

(* the setter was refused while a schema was set *)
C8_WitnessRefused ==
    /\ last_call.op = "output_schema.setter"
    /\ last_call.outcome = "AssertionError"
    /\ _output_schema = "out1"

----------------------------------------------------------------------------
(* Properties of the metrics schema *)

MetricFields == DOMAIN _metrics_schema.fields

(* C9: add_metric_field fails on a name that is already a field and leaves the
   metrics schema unchanged; on a new name the schema gains that one field with
   the given value and keeps every field and value it had; the field names are
   exactly the names successfully added. *)
C9_FieldsAreAddedNames ==
    /\ MetricFields = {metric_log[i] : i \in 1..Len(metric_log)}
    /\ Cardinality(MetricFields) = Len(metric_log)
C9_AddRule ==
    LET c == last_call' IN
    c.op = "add_metric_field"
    => IF c.args.name \in MetricFields
       THEN /\ c.outcome = "AssertionError: Try to add metric field twice"
            /\ UNCHANGED _metrics_schema
       ELSE /\ c.outcome = "ok"
            /\ DOMAIN _metrics_schema'.fields = MetricFields \cup {c.args.name}
            /\ _metrics_schema'.fields[c.args.name] = c.args.value
            /\ \A n \in MetricFields : _metrics_schema'.fields[n] = _metrics_schema.fields[n]
C9_AddMetricField == []C9_FieldsAreAddedNames /\ [][C9_AddRule]_vars

(* m1 was added with one value and then refused with another *)
C9_Witness ==
    /\ last_call.op = "add_metric_field"
    /\ last_call.outcome = "AssertionError: Try to add metric field twice"
    /\ last_call.args.name = "m1"
    /\ last_call.args.value = "Scalar:l2"
    /\ MetricFields = {"m1", "m2"}
    /\ _metrics_schema.fields["m1"] = "Scalar:l1"

----------------------------------------------------------------------------
(* Properties of create_param *)

(* C10: create_param on a resolved name that was created with a different
   shape raises ValueError and leaves _param_to_shape unchanged, with the same
   shape it succeeds; the shape recorded for a name is the shape of its first
   successful creation and never changes. *)
C10_ShapeIsFirstShape == _param_to_shape = first_shape
C10_CreateRule ==
    LET c == last_call'
        n == ResolveParamName(c.args.scope, c.args.param_name) IN
    /\ (/\ c.op = "create_param"
        /\ c.args.param_name.kind \in {"blob", "str"}
        /\ InitOpArgsOk(c.args.shape, c.args.initializer)
        /\ n \in DOMAIN _param_to_shape)
       => IF c.args.shape # _param_to_shape[n]
          THEN /\ c.outcome = "ValueError: Got inconsistent shapes between shared parameters"
               /\ UNCHANGED _param_to_shape
          ELSE /\ c.outcome = "ok"
               /\ UNCHANGED _param_to_shape
    /\ \A m \in DOMAIN _param_to_shape :
          m \in DOMAIN _param_to_shape' /\ _param_to_shape'[m] = _param_to_shape[m]
C10_SharedShapes == []C10_ShapeIsFirstShape /\ [][C10_CreateRule]_vars

(* scope b/ shares a/w: creating "w" under b/ with shape (2, 3) was refused
   because a/w had been created with shape (2,) *)
C10_Witness ==
    /\ last_call.op = "create_param"
    /\ last_call.outcome = "ValueError: Got inconsistent shapes between shared parameters"
    /\ last_call.args.scope = "b/"
    /\ last_call.args.param_name.kind = "str"
    /\ last_call.args.shape = Shape(<<2, 3>>)
    /\ "a/w" \in DOMAIN _param_to_shape
    /\ _param_to_shape["a/w"] = Shape(<<2>>)

----------------------------------------------------------------------------
(* Properties of the seed *)

(* C11: when the stored seed is an integer, apply_seed(net) calls
   net.set_rand_seed with the stored seed and sequence_seed; when store_seed
   was never called, apply_seed leaves the net unchanged. *)
C11_StoredSeedIsApplied ==
    [][LET c == last_call' IN
       c.op = "apply_seed"
       => /\ (seed_stored /\ ~_seed.none)
               => /\ c.ret = "set_rand_seed"
                  /\ net_rand_seed'[c.args.net] =
                        [set |-> TRUE, seed |-> _seed.value, sequence_seed |-> _sequence_seed]
          /\ ~seed_stored => (c.ret = None /\ UNCHANGED net_rand_seed)]_vars

----------------------------------------------------------------------------
(* Properties of the optimizer bookkeeping *)

LayerByName(name) == CHOOSE layer \in LayerArgs : layer.name = name
AssertionFailed(c) ==
    c.outcome = "AssertionError: default optimizer must have been set in add_layer"

(* a successful add_layer gives every parameter of the layer its own optimizer
   if it has one and otherwise the default optimizer of the model *)
C12_AddLayerRule ==
    LET c == last_call' IN
    (c.op = "add_layer" /\ c.outcome = "ok")
    => LET parameters == LayerByName(c.args.layer).parameters IN
       \A i \in 1..Len(parameters) :
            /\ parameters[i].parameter \in DOMAIN param_to_optim'
            /\ param_to_optim'[parameters[i].parameter] =
                    IF parameters[i].optimizer # None THEN parameters[i].optimizer
                    ELSE _default_optimizer

(* C12 as stated: ... so that whenever a default optimizer has been assigned to
   the model before apply_optimizers is called, the assertion of
   apply_optimizers does not fail, whatever the order of the default_optimizer
   assignment and the add_layer calls. *)
C12_AnyOrderOfDefaultAndAddLayer ==
    [][/\ C12_AddLayerRule
       /\ LET c == last_call' IN
          (c.op = "apply_optimizers" /\ _default_optimizer # None) => ~AssertionFailed(c)]_vars

(* C12 amended: param_to_optim[name] is the parameter's own optimizer if it has
   one and otherwise the default optimizer the model had at the add_layer call
   that last added the parameter; the assertion of apply_optimizers fails
   exactly when some parameter had no optimizer of its own and was added while
   no default optimizer was assigned. *)
C12_OptimIsOwnOrDefaultAtAdd ==
    /\ DOMAIN param_to_optim = DOMAIN optim_at_add
    /\ \A p \in DOMAIN param_to_optim :
            param_to_optim[p] = IF optim_at_add[p].own # None THEN optim_at_add[p].own
                                ELSE optim_at_add[p].default
C12_DefaultAssignedBeforeAddLayer ==
    /\ []C12_OptimIsOwnOrDefaultAtAdd
    /\ [][/\ C12_AddLayerRule
          /\ LET c == last_call' IN
             c.op = "apply_optimizers"
             => (AssertionFailed(c)
                 <=> \E p \in DOMAIN optim_at_add :
                        optim_at_add[p].own = None /\ optim_at_add[p].default = None)]_vars

(* apply_optimizers went through: a/b got the default assigned before
   add_layer, a/w kept its own optimizer, and the default was unset afterwards *)
C12_Witness ==
    /\ last_call.op = "apply_optimizers"
    /\ last_call.outcome = "ok"
    /\ DOMAIN param_to_optim = {"a/w", "a/b"}
    /\ param_to_optim["a/w"] = "adagrad"
    /\ param_to_optim["a/b"] = "sgd"
    /\ _default_optimizer = None

----------------------------------------------------------------------------
(* Properties of the regularizer passes *)

Elements(seq) == {seq[i] : i \in 1..Len(seq)}
Count(seq, x) == Cardinality({i \in 1..Len(seq) : seq[i] = x})
NoDuplicates(seq) == \A i, j \in 1..Len(seq) : i # j => seq[i] # seq[j]

(* the parameters with a regularizer applied on the loss / after the optimizer *)
OnLossParams(regs) ==
    {p \in DOMAIN regs : regs[p] # None /\ ~apply_after_optimizer(regs[p])}
AfterOptimizerParams(regs) ==
    {p \in DOMAIN regs : regs[p] # None /\ apply_after_optimizer(regs[p])}

(* on a loss that is unset or a struct, apply_regularizers_on_loss invokes
   exactly the on-loss regularizers, each once, and the loss gains one new
   field per invocation and keeps the fields it had *)
C13_OnLossRule ==
    LET c == last_call' IN
    (c.op = "apply_regularizers_on_loss" /\ _loss.kind \in {"None", "Struct"})
    => /\ c.outcome = "ok"
       /\ NoDuplicates(c.args.invoked)
       /\ Elements(c.args.invoked) = OnLossParams(param_to_reg)
       /\ LossFields \subseteq DOMAIN _loss'.fields
       /\ Cardinality(DOMAIN _loss'.fields) = Cardinality(LossFields) + Len(c.args.invoked)
       /\ \A n \in LossFields : _loss'.fields[n] = _loss.fields[n]

(* apply_regularizers_after_optimizer invokes exactly the after-optimizer
   regularizers, each once, and leaves the loss unchanged *)
C13_AfterOptimizerRule ==
    LET c == last_call' IN
    c.op = "apply_regularizers_after_optimizer"
    => /\ NoDuplicates(c.args.invoked)
       /\ Elements(c.args.invoked) = AfterOptimizerParams(param_to_reg)
       /\ UNCHANGED _loss

(* one completed pass of each kind over the same param_to_reg invokes every
   non-None regularizer exactly once and no None entry *)
C13_EachRegularizerOnce ==
    \A i, j \in 1..Len(pass_log) :
        (/\ pass_log[i].pass = "on_loss" /\ pass_log[i].outcome = "ok"
         /\ pass_log[j].pass = "after_optimizer"
         /\ pass_log[i].regs = pass_log[j].regs)
        => \A p \in DOMAIN pass_log[i].regs :
              Count(pass_log[i].invoked, p) + Count(pass_log[j].invoked, p) =
                  IF pass_log[i].regs[p] # None THEN 1 ELSE 0

(* C13: the two regularizer passes partition the regularized parameters. *)
C13_PassesPartitionRegularizers ==
    []C13_EachRegularizerOnce /\ [][C13_OnLossRule /\ C13_AfterOptimizerRule]_vars

(* both passes ran over a param_to_reg with an on-loss regularizer (o/w), an
   after-optimizer regularizer (a/w) and a None entry (a/b) *)
C13_Witness ==
    /\ Len(pass_log) = 2
    /\ pass_log[1].pass = "on_loss"
    /\ pass_log[1].invoked = <<"o/w">>
    /\ pass_log[2].pass = "after_optimizer"
    /\ pass_log[2].invoked = <<"a/w">>
    /\ pass_log[1].regs = pass_log[2].regs
    /\ DOMAIN param_to_reg = {"a/w", "a/b", "o/w"}
    /\ param_to_reg["a/b"] = None
    /\ Cardinality(LossFields) = 1

----------------------------------------------------------------------------
(* Properties of __getattr__ and its wrappers *)

(* __getattr__ changes nothing of the model; a '__' name raises AttributeError
   and asks no registry; else a registered layer gives the layer wrapper, also
   when an operator has the name; else an operator gives the operator wrapper;
   else ValueError *)
C14_DispatchRule ==
    LET c == last_call'
        layer == c.args.layer IN
    c.op = "__getattr__"
    => /\ UNCHANGED <<constVars, nameVars, lossVars, outVars, metricVars, paramVars, seedVars,
                      layerVars, regVars>>
       /\ IF startswith(layer, "__")
          THEN c.outcome = "AttributeError" /\ trace' = <<>> /\ UNCHANGED wrapper
          ELSE IF layer \in LayerRegistry
          THEN c.outcome = "ok" /\ wrapper' = [kind |-> "layer", layer |-> layer]
          ELSE IF layer \in OperatorRegistry
          THEN c.outcome = "ok" /\ wrapper' = [kind |-> "operator", layer |-> layer]
          ELSE /\ c.outcome = "ValueError: Trying to create non-registered layer"
               /\ UNCHANGED wrapper

(* a wrapper call that returns has created the layer of the wrapper's name, or
   a 'Functional' layer named after the operator unless the caller named it,
   has made the metrics exports asked for, and has then added the layer once *)
C14_WrapperRule ==
    LET c == last_call'
        t == trace'
        n == Len(t) IN
    (c.op = "wrapper" /\ c.outcome = "ok")
    => /\ n >= 2
       /\ t[1].call = "create_layer"
       /\ t[1].type = IF wrapper.kind = "layer" THEN wrapper.layer ELSE "Functional"
       /\ t[1].name = IF wrapper.kind = "operator" /\ c.args.name = None
                      THEN wrapper.layer
                      ELSE c.args.name
       /\ t[n].call = "add_layer"
       /\ t[n].name = c.ret
       /\ \A i \in 1..(n - 1) : t[i].call # "add_layer"
       /\ (\E i \in 1..n : t[i].call = "export_output_for_metrics") <=> c.args.output_to_metrics
       /\ (\E i \in 1..n : t[i].call = "export_params_for_metrics") <=> c.args.params_to_metrics
       /\ _layers' = Append(_layers, c.ret)

(* C14: attribute dispatch is total and ordered, and each wrapper adds its
   layer exactly once, after the metrics exports. *)
C14_DispatchTotalAndOrdered == [][C14_DispatchRule /\ C14_WrapperRule]_vars

(* "Concat", a layer and an operator, was added as the layer; then the wrapper
   of the operator "Relu", called without a name and with both exports, added
   a layer named after the operator *)
C14_Witness ==
    /\ last_call.op = "wrapper"
    /\ last_call.outcome = "ok"
    /\ wrapper = [kind |-> "operator", layer |-> "Relu"]
    /\ last_call.args.name = None
    /\ last_call.args.output_to_metrics
    /\ last_call.args.params_to_metrics
    /\ Len(trace) = 4
    /\ _layers = <<"concat", "Relu">>
    /\ "Relu/output" \in DOMAIN _metrics_schema.fields

====
